---- MODULE Spec2Model ----
(***************************************************************************)
(* Model of the two feed generators of mastodon-bookmarks-rss:             *)
(*   fetch_bookmarks.py  (bookmarks -> mastodon-bookmarks.xml)             *)
(*   fetch_statuses.py   (own statuses -> mastodon-statuses.xml)           *)
(*                                                                         *)
(* Python values are represented as follows.                               *)
(*   str            a sequence of one-character strings; a URL, a rel name *)
(*                  or another separator-free word is one element          *)
(*   Optional[x]    << >> for None, <<x>> for a present value              *)
(*   dict (links)   a function from keys to values                         *)
(*   datetime       an integer number of hours                             *)
(***************************************************************************)
EXTENDS Integers, Sequences, FiniteSets, TLC

VARIABLES
    variant,        \* which script runs: "bookmarks" or "statuses"
    env,            \* which family of server answers this run explores
    max_items,      \* MAX_BOOKMARKS / MAX_STATUSES
    pc,             \* position of main()
    url,            \* fetch loop: Optional[str], the next page URL
    results,        \* fetch loop: the accumulating list
    requests,       \* number of page requests issued so far
    http,           \* all HTTP requests issued / HTTP errors seen / requests at the first error
    before,         \* `results` as it was when the last page request was issued
    last,           \* Optional[response]: the answer to the last page request
    chain,          \* history of the served pages while the server behaves as a chain
    ret,            \* Optional[list]: return value of fetch_*
    file,           \* content of the output file
    text,           \* escape_xml: the argument
    escaped,        \* escape_xml: Optional[[variant, out]]
    statuses,       \* build_rss: the argument
    rss             \* build_rss: the feeds built by successive runs

vars == <<variant, env, max_items, pc, url, results, requests, http, before, last,
          chain, ret, file, text, escaped, statuses, rss>>

fetchVars == <<variant, env, max_items, pc, url, results, requests, http, before,
               last, chain, ret, file>>

(***************************************************************************)
(* Bounds of the exploration: posts per page, the small caps, page         *)
(* requests per run, characters of an escaped text, posts per built feed,  *)
(* runs of build_rss, and the hour at which the first run starts.          *)
(***************************************************************************)
MaxPageLen == 2
MaxCap == 2
MaxReq == 3
MaxLen == 3
MaxPosts == 2
MaxRuns == 2
RunTime == 100

(***************************************************************************)
(* Constants of the program: the default of MAX_BOOKMARKS / MAX_STATUSES,  *)
(* timedelta(days=1) and timedelta(days=2) in hours.                       *)
(***************************************************************************)
DefaultCap == 80
BookmarkWindowHours == 24
StatusWindowHours == 48

None == << >>
Some(x) == <<x>>

\* Python truthiness of an Optional[str]: None and "" are falsy.
Truthy(o) == o # None /\ o[1] # << >>

RECURSIVE Concat(_)
Concat(ss) == IF ss = << >> THEN << >> ELSE Head(ss) \o Concat(Tail(ss))

Take(s, n) == IF n <= 0 THEN << >> ELSE SubSeq(s, 1, IF n < Len(s) THEN n ELSE Len(s))

SeqsUpTo(S, n) == UNION {[1..k -> S] : k \in 0..n}

Range(s) == {s[i] : i \in 1..Len(s)}

(***************************************************************************)
(* escape_xml: a chain of str.replace calls, each rewriting every          *)
(* occurrence of one character in the output of the previous call.         *)
(***************************************************************************)
RECURSIVE replace(_, _, _)
replace(s, old, new) ==
    IF s = << >> THEN << >>
    ELSE (IF Head(s) = old THEN new ELSE <<Head(s)>>) \o replace(Tail(s), old, new)

escape_xml_bookmarks(t) ==
    replace(replace(replace(replace(replace(t,
        "&", <<"&", "a", "m", "p", ";">>),
        "<", <<"&", "l", "t", ">">>),
        ">", <<"&", "g", "t", ";">>),
        "\"", <<"&", "q", "u", "o", "t", ";">>),
        "'", <<"&", "a", "p", "o", "s", ";">>)

escape_xml_statuses(t) ==
    replace(replace(replace(replace(t,
        "&", <<"&", "a", "m", "p", ";">>),
        "<", <<"&", "l", "t", ";">>),
        ">", <<"&", "g", "t", ";">>),
        "'", <<"&", "a", "p", "o", "s", ";">>)

escape_xml(v, t) == IF v = "bookmarks" THEN escape_xml_bookmarks(t) ELSE escape_xml_statuses(t)

(***************************************************************************)
(* parse_link_header (identical in both scripts).                          *)
(***************************************************************************)
RECURSIVE split(_, _)
\* str.split(sep): always at least one piece
split(s, sep) ==
    IF \A i \in 1..Len(s) : s[i] # sep THEN <<s>>
    ELSE LET i == CHOOSE k \in 1..Len(s) : s[k] = sep /\ \A j \in 1..(k - 1) : s[j] # sep
         IN  <<SubSeq(s, 1, i - 1)>> \o split(SubSeq(s, i + 1, Len(s)), sep)

RECURSIVE lstrip(_, _)
lstrip(s, cs) == IF s # << >> /\ Head(s) \in cs THEN lstrip(Tail(s), cs) ELSE s

RECURSIVE rstrip(_, _)
rstrip(s, cs) ==
    IF s # << >> /\ s[Len(s)] \in cs THEN rstrip(SubSeq(s, 1, Len(s) - 1), cs) ELSE s

strip(s, cs) == rstrip(lstrip(s, cs), cs)

Whitespace == {" "}

startswith(s, p) == Len(s) >= Len(p) /\ SubSeq(s, 1, Len(p)) = p

endswith(s, p) == Len(s) >= Len(p) /\ SubSeq(s, Len(s) - Len(p) + 1, Len(s)) = p

\* s.split(sep, 1)[1] for an s that holds sep
after_first(s, sep) ==
    LET i == CHOOSE k \in 1..Len(s) : s[k] = sep /\ \A j \in 1..(k - 1) : s[j] # sep
    IN  SubSeq(s, i + 1, Len(s))

RECURSIVE rel_of_any(_, _)
\* mutant: the value of any attribute taken for the relation
rel_of_any(attrs, rel) ==
    IF attrs = << >> THEN rel
    ELSE LET a == strip(Head(attrs), Whitespace)
         IN  rel_of_any(Tail(attrs),
                        IF "=" \in Range(a)
                        THEN Some(strip(after_first(a, "="), {"\""}))
                        ELSE rel)

RECURSIVE rel_of(_, _)
\* lines 96-100: the last "rel=" attribute of the part wins
rel_of(attrs, rel) ==
    IF attrs = << >> THEN rel
    ELSE LET a == strip(Head(attrs), Whitespace)
         IN  rel_of(Tail(attrs),
                    IF startswith(a, <<"rel", "=">>)
                    THEN Some(strip(after_first(a, "="), {"\""}))
                    ELSE rel)

\* dict assignment links[k] = v
dict_set(d, k, v) == [x \in DOMAIN d \cup {k} |-> IF x = k THEN v ELSE d[x]]

\* dict.get(k)
dict_get(d, k) == IF k \in DOMAIN d THEN Some(d[k]) ELSE None

EmptyDict == [x \in {} |-> << >>]

RECURSIVE parse_parts(_, _)
parse_parts(parts, links) ==
    IF parts = << >> THEN links
    ELSE LET section  == split(strip(Head(parts), Whitespace), ";")
             url_part == strip(section[1], Whitespace)
             rel      == rel_of(Tail(section), None)
         IN  IF Len(section) < 2 THEN parse_parts(Tail(parts), links)
             ELSE IF ~(startswith(url_part, <<"<">>) /\ endswith(url_part, <<">">>))
                  THEN parse_parts(Tail(parts), links)
             ELSE IF Truthy(rel)
                  THEN parse_parts(Tail(parts),
                           dict_set(links, rel[1], SubSeq(url_part, 2, Len(url_part) - 1)))
             ELSE parse_parts(Tail(parts), links)

parse_link_header(header) ==
    IF ~Truthy(header) THEN EmptyDict ELSE parse_parts(split(header[1], ","), EmptyDict)

(***************************************************************************)
(* Posts.  created_at is [kind, t, tz]: kind "None" (key absent), "empty"  *)
(* (""), "garbage" (no ISO-8601 text) or "iso" (time t written with the    *)
(* suffix tz, "Z" or "+00:00").  content is the tag stream HTMLParser       *)
(* reports.                                                                *)
(***************************************************************************)
NoTime == [kind |-> "None", t |-> RunTime, tz |-> ""]
EmptyTime == [kind |-> "empty", t |-> RunTime, tz |-> ""]
Garbage == [kind |-> "garbage", t |-> RunTime, tz |-> ""]
Iso(t, tz) == [kind |-> "iso", t |-> t, tz |-> tz]

Post(id, vis, created, content, u) ==
    [id |-> id, visibility |-> vis, created_at |-> created, content |-> content, url |-> u]

StartTag(tag, href) == [type |-> "starttag", tag |-> tag, href |-> href, data |-> ""]
Data(d) == [type |-> "data", tag |-> "", href |-> None, data |-> d]

\* created_at_str.replace("Z", "+00:00")
replace_Z(c) == IF c.tz = "Z" THEN [c EXCEPT !.tz = "+00:00"] ELSE c

\* datetime.fromisoformat: None stands for the exception it raises
fromisoformat(c) == IF c.kind = "iso" /\ c.tz = "+00:00" THEN Some(c.t) ELSE None

\* fetch_statuses lines 163-172, build_rss (bookmarks) lines 143-152
created_of(st, now) ==
    IF st.created_at.kind \in {"None", "empty"} THEN now
    ELSE LET parsed == fromisoformat(replace_Z(st.created_at))
         IN  IF parsed = None THEN now ELSE parsed[1]

\* mutant: a post exactly at the cutoff counted as too old
too_old_inclusive(created, cutoff) == created <= cutoff

too_old(created, cutoff) == created < cutoff

\* mutant: direct messages let through
is_direct_never(st) == FALSE

is_direct(st) == st.visibility = "direct"

RECURSIVE extract_first_link(_)
extract_first_link(content) ==
    IF content = << >> THEN None
    ELSE IF Head(content).type = "starttag" /\ Head(content).tag = "a"
            /\ Head(content).href # None
         THEN Head(content).href
         ELSE extract_first_link(Tail(content))

(***************************************************************************)
(* build_rss.  An item is modelled by its guid, link and pubDate; title    *)
(* and description do not enter any property below.                        *)
(***************************************************************************)
PAGES_BASE_URL == <<"pages-base-url">>

InstanceUrl == <<"instance-url">>

\* str(x) inside an f-string
fstr(o) == IF o = None THEN <<"N", "o", "n", "e">> ELSE o[1]

\* Python `a or b` on Optional[str]
py_or(a, b) == IF Truthy(a) THEN a ELSE b

guid_bookmarks(st) ==
    escape_xml_bookmarks(<<"b", "o", "o", "k", "m", "a", "r", "k", "-">> \o fstr(st.id))

link_statuses(st, inst) == py_or(py_or(extract_first_link(st.content), st.url), Some(inst))[1]

\* mutant: the link preferred to the id
guid_statuses_link(st, inst) == escape_xml_statuses(py_or(Some(link_statuses(st, inst)), st.id)[1])

guid_statuses(st, inst) == escape_xml_statuses(py_or(st.id, Some(link_statuses(st, inst)))[1])

item_bookmarks(st, now) ==
    [guid    |-> guid_bookmarks(st),
     link    |-> escape_xml_bookmarks(py_or(extract_first_link(st.content), Some(PAGES_BASE_URL))[1]),
     pubDate |-> now]

\* format_date
format_date(st, now) ==
    IF ~(st.created_at.kind \in {"iso", "garbage"}) THEN now
    ELSE LET parsed == fromisoformat(replace_Z(st.created_at))
         IN  IF parsed = None THEN now ELSE parsed[1]

item_statuses(st, inst, now) ==
    [guid    |-> guid_statuses(st, inst),
     link    |-> escape_xml_statuses(link_statuses(st, inst)),
     pubDate |-> format_date(st, now)]

keep_bookmark(st, now) == ~too_old(created_of(st, now), now - BookmarkWindowHours)

RECURSIVE items_bookmarks(_, _)
items_bookmarks(sts, now) ==
    IF sts = << >> THEN << >>
    ELSE (IF keep_bookmark(Head(sts), now) THEN <<item_bookmarks(Head(sts), now)>> ELSE << >>)
         \o items_bookmarks(Tail(sts), now)

build_rss_bookmarks(inst, sts, now) ==
    [generator |-> "bookmarks", link |-> escape_xml_bookmarks(inst), items |-> items_bookmarks(sts, now)]

build_rss_statuses(inst, sts, now) ==
    [generator |-> "statuses", link |-> escape_xml_statuses(inst),
     items |-> [i \in 1..Len(sts) |-> item_statuses(sts[i], inst, now)]]

build_rss(v, inst, sts, now) ==
    IF v = "bookmarks" THEN build_rss_bookmarks(inst, sts, now) ELSE build_rss_statuses(inst, sts, now)

(***************************************************************************)
(* HTTP.  A response is [status, is_list, data, link]: the status class,   *)
(* whether the JSON body is a list, the list, and the Link header.         *)
(***************************************************************************)
Response(status, is_list, data, link) ==
    [status |-> status, is_list |-> is_list, data |-> data, link |-> link]

\* mutant: the status never looked at
raise_for_status_never(r) == FALSE

\* r.raise_for_status() raises
raise_for_status(r) == r.status # "ok"

\* mutant: the wrong relation followed
next_url_prev(r) == dict_get(parse_link_header(r.link), <<"prev">>)

\* links.get("next")
next_url(r) == dict_get(parse_link_header(r.link), <<"next">>)

StartUrl == <<"start">>

(***************************************************************************)
(* fetch_bookmarks: the loop test and one pass of the loop body on the     *)
(* response r; brk tells that the body left the loop by `break`.           *)
(***************************************************************************)
loop_test_bookmarks(u, res, cap) == Truthy(u) /\ Len(res) < cap

body_bookmarks(u, res, cap, r) ==
    IF ~r.is_list \/ r.data = << >>
    THEN [url |-> u, results |-> res, brk |-> TRUE]
    ELSE LET extended == res \o r.data
         IN  IF Len(extended) >= cap
             THEN [url |-> u, results |-> extended, brk |-> TRUE]
             ELSE [url |-> next_url(r), results |-> extended, brk |-> FALSE]

\* mutant: the list returned whole
return_slice_all(res, cap) == res

\* results[:max_items], max_items >= 0
return_slice(res, cap) == Take(res, cap)

(***************************************************************************)
(* fetch_statuses: the `for st in data` loop, the loop test and the body.  *)
(***************************************************************************)
RECURSIVE scan_page_skip(_, _, _, _, _)
\* mutant: a too-old post skipped with `continue`, the scan going on
scan_page_skip(data, res, cap, now, cutoff) ==
    IF data = << >> THEN [results |-> res, reached_cutoff |-> FALSE]
    ELSE LET st == Head(data)
         IN  IF is_direct(st) THEN scan_page_skip(Tail(data), res, cap, now, cutoff)
             ELSE IF too_old(created_of(st, now), cutoff)
                  THEN scan_page_skip(Tail(data), res, cap, now, cutoff)
             ELSE IF Len(res) + 1 >= cap
                  THEN [results |-> Append(res, st), reached_cutoff |-> FALSE]
             ELSE scan_page_skip(Tail(data), Append(res, st), cap, now, cutoff)

RECURSIVE scan_page(_, _, _, _, _)
scan_page(data, res, cap, now, cutoff) ==
    IF data = << >> THEN [results |-> res, reached_cutoff |-> FALSE]
    ELSE LET st == Head(data)
         IN  IF is_direct(st) THEN scan_page(Tail(data), res, cap, now, cutoff)
             ELSE IF too_old(created_of(st, now), cutoff)
                  THEN [results |-> res, reached_cutoff |-> TRUE]
             ELSE IF Len(res) + 1 >= cap
                  THEN [results |-> Append(res, st), reached_cutoff |-> FALSE]
             ELSE scan_page(Tail(data), Append(res, st), cap, now, cutoff)

loop_test_statuses(u, res, cap, reached_cutoff) ==
    Truthy(u) /\ Len(res) < cap /\ ~reached_cutoff

body_statuses(u, res, cap, r, now) ==
    IF ~r.is_list \/ r.data = << >>
    THEN [url |-> u, results |-> res, reached_cutoff |-> FALSE, brk |-> TRUE]
    ELSE LET scanned == scan_page(r.data, res, cap, now, now - StatusWindowHours)
         IN  IF Len(scanned.results) >= cap \/ scanned.reached_cutoff
             THEN [url |-> u, results |-> scanned.results,
                   reached_cutoff |-> scanned.reached_cutoff, brk |-> TRUE]
             ELSE [url |-> next_url(r), results |-> scanned.results,
                   reached_cutoff |-> scanned.reached_cutoff, brk |-> FALSE]

\* whether the loop goes on to another request after a pass b of its body
continues(v, b, cap) ==
    ~b.brk /\ (IF v = "bookmarks" THEN loop_test_bookmarks(b.url, b.results, cap)
               ELSE loop_test_statuses(b.url, b.results, cap, b.reached_cutoff))

loop_body(v, u, res, cap, r, now) ==
    IF v = "bookmarks" THEN body_bookmarks(u, res, cap, r) ELSE body_statuses(u, res, cap, r, now)

(***************************************************************************)
(* The server.  Each run draws its answers from one of two families: rich  *)
(* pages under plain Link headers ("items"), or plain pages under rich     *)
(* Link headers ("links").                                                 *)
(***************************************************************************)
NextLink(u) == <<"<", u, ">", ";", " ", "rel", "=", "\"", "next", "\"">>
PrevLink(u) == <<"<", u, ">", ";", " ", "rel", "=", "\"", "prev", "\"">>
BothLinks(u, p) == NextLink(u) \o <<",", " ">> \o PrevLink(p)

PageUrls == {"start", "page2", "page3"}

\* headers that advertise a next page in the standard form
NextHeaders(u) == {Some(NextLink(u)), Some(BothLinks(u, "newer")), Some(PrevLink("newer") \o <<",", " ">> \o NextLink(u))}

\* absent, empty, and malformed headers
NoBrackets == <<"page2", ";", " ", "rel", "=", "\"", "next", "\"">>
NoRel == <<"<", "page2", ">">>
NoRelValue == <<"<", "page2", ">", ";", " ", "title", "=", "\"", "next", "\"">>
NoNextHeaders == {None, Some(<< >>), Some(NoBrackets), Some(NoRel), Some(NoRelValue), Some(PrevLink("newer"))}

Headers(e) ==
    IF e = "items" THEN {None, Some(NextLink("start"))}
    ELSE NoNextHeaders \cup UNION {NextHeaders(u) : u \in PageUrls}

Plain == <<StartTag("p", None), Data("hi")>>

Recent == Post(Some(<<"7">>), "public", Iso(RunTime, "Z"), Plain, None)

Posts(v, e) ==
    IF e = "items" /\ v = "bookmarks"
    THEN {Recent, Post(Some(<<"7">>), "public", Iso(RunTime - BookmarkWindowHours - 1, "Z"), Plain, None)}
    ELSE IF e = "items"
    THEN {Post(Some(<<"7">>), "public", NoTime, Plain, None),
          Post(Some(<<"7">>), "unlisted", Garbage, Plain, None),
          Post(Some(<<"7">>), "public", Iso(RunTime - StatusWindowHours, "Z"), Plain, None),
          Post(Some(<<"7">>), "public", Iso(RunTime - StatusWindowHours - 1, "+00:00"), Plain, None),
          Post(Some(<<"7">>), "direct", Iso(RunTime, "Z"), Plain, None),
          Post(Some(<<"7">>), "direct", Iso(RunTime - StatusWindowHours - 1, "Z"), Plain, None)}
    ELSE {Recent}

Responses(v, e) ==
    {Response("error", FALSE, << >>, None), Response("ok", FALSE, << >>, Some(NextLink("page2")))}
    \cup {Response("ok", TRUE, d, h) : d \in SeqsUpTo(Posts(v, e), MaxPageLen), h \in Headers(e)}

\* the caps explored (MAX_BOOKMARKS, MAX_STATUSES >= 0): the small ones, and the
\* scripts' default under plain pages
Caps(e) == IF e = "links" THEN 0..MaxCap \cup {DefaultCap} ELSE 0..MaxCap

PriorFile == [generator |-> "previous run", link |-> << >>, items |-> << >>]

(***************************************************************************)
(* History of the served pages, kept while the server behaves as a finite  *)
(* chain: every page a non-empty list of posts the script keeps, every     *)
(* Link header either advertising a page not advertised before or          *)
(* advertising none.  adv: the URLs of the chain, urls: the URLs           *)
(* requested, items: the concatenation of the pages served.                *)
(***************************************************************************)
Advertised(h) ==
    IF \E u \in PageUrls : h \in NextHeaders(u)
    THEN Some(<<CHOOSE u \in PageUrls : h \in NextHeaders(u)>>)
    ELSE None

Newer(st, now) ==
    st.visibility # "direct"
    /\ (st.created_at.kind = "iso" => st.created_at.t > now - StatusWindowHours)

ChainPage(v, r, adv) ==
    /\ r.status = "ok" /\ r.is_list /\ r.data # << >>
    /\ v = "statuses" => \A i \in 1..Len(r.data) : Newer(r.data[i], RunTime)
    /\ \/ r.link \in NoNextHeaders
       \/ Advertised(r.link) # None /\ Advertised(r.link)[1] \notin Range(adv)

ChainStart == [ok |-> TRUE, closed |-> FALSE, adv |-> <<StartUrl>>, urls |-> << >>, items |-> << >>]
ChainBroken == [ok |-> FALSE, closed |-> FALSE, adv |-> << >>, urls |-> << >>, items |-> << >>]

ChainNext(c, v, u, r) ==
    IF c.ok /\ c.closed THEN [c EXCEPT !.urls = Append(@, u)]
    ELSE IF c.ok /\ ChainPage(v, r, c.adv)
    THEN [ok |-> TRUE, closed |-> Advertised(r.link) = None,
          adv |-> c.adv \o Advertised(r.link), urls |-> Append(c.urls, u),
          items |-> c.items \o r.data]
    ELSE ChainBroken

(***************************************************************************)
(* main(): the run of one script.                                          *)
(***************************************************************************)
NoHttp == [total |-> 0, errors |-> 0, at_error |-> 0]

Counted(h, failed) ==
    [total |-> h.total + 1, errors |-> h.errors + (IF failed THEN 1 ELSE 0),
     at_error |-> IF failed /\ h.errors = 0 THEN h.total + 1 ELSE h.at_error]

\* fetch_* returns res[:max_items]; main builds the feed and writes the file
Finish(res) ==
    /\ pc' = "written"
    /\ ret' = Some(return_slice(res, max_items))
    /\ file' = build_rss(variant, InstanceUrl, return_slice(res, max_items), RunTime)

\* the loop is entered with url set and results empty
EnterLoop ==
    /\ url' = Some(StartUrl)
    /\ results' = << >>
    /\ IF continues(variant, [url |-> Some(StartUrl), results |-> << >>,
                              reached_cutoff |-> FALSE, brk |-> FALSE], max_items)
       THEN pc' = "loop" /\ UNCHANGED <<ret, file>>
       ELSE Finish(<< >>)

StartBookmarks ==
    /\ pc = "main" /\ variant = "bookmarks"
    /\ EnterLoop
    /\ UNCHANGED <<variant, env, max_items, requests, http, before, last, chain,
                   text, escaped, statuses, rss>>

VerifyResponses ==
    {[status |-> "error", id |-> None], [status |-> "ok", id |-> None],
     [status |-> "ok", id |-> Some(<<"1">>)]}

\* get_own_account_id, then the entry of the loop
VerifyCredentials ==
    /\ pc = "main" /\ variant = "statuses"
    /\ \E r \in VerifyResponses :
         /\ http' = Counted(http, r.status # "ok")
         /\ IF raise_for_status(r)
            THEN pc' = "aborted" /\ UNCHANGED <<url, results, ret, file>>
            ELSE IF ~Truthy(r.id)
            THEN pc' = "exited" /\ UNCHANGED <<url, results, ret, file>>
            ELSE EnterLoop
    /\ UNCHANGED <<variant, env, max_items, requests, before, last, chain,
                   text, escaped, statuses, rss>>

\* one pass of the while loop: the request, the body, and what follows it
FetchPage(v) ==
    /\ requests < MaxReq
    /\ \E r \in Responses(v, env) :
         /\ requests' = requests + 1
         /\ http' = Counted(http, r.status # "ok")
         /\ before' = results
         /\ last' = Some(r)
         /\ chain' = ChainNext(chain, v, url[1], r)
         /\ IF raise_for_status(r)
            THEN pc' = "aborted" /\ UNCHANGED <<url, results, ret, file>>
            ELSE LET b == loop_body(v, url, results, max_items, r, RunTime)
                 IN  /\ url' = b.url
                     /\ results' = b.results
                     /\ IF continues(v, b, max_items)
                        THEN pc' = "loop" /\ UNCHANGED <<ret, file>>
                        ELSE Finish(b.results)
    /\ UNCHANGED <<variant, env, max_items, text, escaped, statuses, rss>>

FetchBookmarksPage == pc = "loop" /\ variant = "bookmarks" /\ FetchPage("bookmarks")

FetchStatusesPage == pc = "loop" /\ variant = "statuses" /\ FetchPage("statuses")

Init ==
    /\ variant \in {"bookmarks", "statuses"}
    /\ env \in {"items", "links"}
    /\ max_items \in Caps(env)
    /\ pc = "main"
    /\ url = None
    /\ results = << >>
    /\ requests = 0
    /\ http = NoHttp
    /\ before = << >>
    /\ last = None
    /\ chain = ChainStart
    /\ ret = None
    /\ file = PriorFile
    /\ text = << >>
    /\ escaped = None
    /\ statuses = << >>
    /\ rss = << >>

Next == StartBookmarks \/ VerifyCredentials \/ FetchBookmarksPage \/ FetchStatusesPage

Spec == Init /\ [][Next]_vars

(***************************************************************************)
(* escape_xml as a function of its argument: the text is drawn at the      *)
(* start, and each script's escape_xml is applied to it.                   *)
(***************************************************************************)
Alphabet == {"&", "<", ">", "\"", "'", "a", ";"}

InitEsc ==
    /\ text \in SeqsUpTo(Alphabet, MaxLen)
    /\ escaped = None
    /\ variant = "none" /\ env = "none" /\ max_items = 0 /\ pc = "none" /\ url = None
    /\ results = << >> /\ requests = 0 /\ http = NoHttp /\ before = << >> /\ last = None
    /\ chain = ChainBroken /\ ret = None /\ file = PriorFile
    /\ statuses = << >> /\ rss = << >>

Escape(v) ==
    /\ escaped' = Some([variant |-> v, out |-> escape_xml(v, text)])
    /\ UNCHANGED <<fetchVars, text, statuses, rss>>

EscapeBookmarks == escaped = None /\ Escape("bookmarks")

EscapeStatuses == escaped = None /\ Escape("statuses")

NextEsc == EscapeBookmarks \/ EscapeStatuses

SpecEsc == InitEsc /\ [][NextEsc]_vars

(***************************************************************************)
(* build_rss as a function of the fetched list: the list is drawn at the   *)
(* start, and a script's build_rss is applied to it in successive runs,    *)
(* one hour apart.                                                         *)
(***************************************************************************)
Linked(l) == <<StartTag("p", None), Data("see "), StartTag("a", None), StartTag("a", Some(l)), Data("this")>>

PostIds == {None, Some(<<"4", "2">>), Some(<<"7">>)}

Timestamps ==
    {NoTime, EmptyTime, Garbage, Iso(RunTime, "Z"),
     Iso(RunTime - BookmarkWindowHours + 1, "+00:00"),
     Iso(RunTime - BookmarkWindowHours, "Z"),
     Iso(RunTime - BookmarkWindowHours - 1, "Z")}

FeedPosts ==
    {Post(id, "public", c, Plain, None) : id \in PostIds, c \in Timestamps}
    \cup {Post(id, "public", Iso(RunTime, "Z"), Linked(<<"https://x.test">>), None) : id \in PostIds}
    \cup {Post(id, "public", Iso(RunTime, "Z"), Plain, Some(<<"https://m.test/@me/1">>)) : id \in PostIds}

InitRss ==
    /\ statuses \in SeqsUpTo(FeedPosts, MaxPosts)
    /\ rss = << >>
    /\ variant = "none" /\ env = "none" /\ max_items = 0 /\ pc = "none" /\ url = None
    /\ results = << >> /\ requests = 0 /\ http = NoHttp /\ before = << >> /\ last = None
    /\ chain = ChainBroken /\ ret = None /\ file = PriorFile
    /\ text = << >> /\ escaped = None

BuildRss(v) ==
    /\ rss # << >> => rss[1].feed.generator = v
    /\ rss' = Append(rss, [now  |-> RunTime + Len(rss),
                           feed |-> build_rss(v, InstanceUrl, statuses, RunTime + Len(rss))])
    /\ UNCHANGED <<fetchVars, text, escaped, statuses>>

BuildRssBookmarks == Len(rss) < MaxRuns /\ BuildRss("bookmarks")

BuildRssStatuses == Len(rss) < MaxRuns /\ BuildRss("statuses")

NextRss == BuildRssBookmarks \/ BuildRssStatuses

SpecRss == InitRss /\ [][NextRss]_vars

(***************************************************************************)
(* Properties.  The predicates below read the raw server answers and the   *)
(* raw posts; they do not go through the scripts' own parsing.             *)
(***************************************************************************)
Max(a, b) == IF a >= b THEN a ELSE b

\* an ISO timestamp older than the statuses cutoff
OldRaw(st) == st.created_at.kind = "iso" /\ st.created_at.t < RunTime - StatusWindowHours

\* a post the fetcher of script v is meant to keep
AcceptableRaw(v, st) == v = "bookmarks" \/ (st.visibility # "direct" /\ ~OldRaw(st))

Acceptable(v, data) == SelectSeq(data, LAMBDA st : AcceptableRaw(v, st))

\* the part of a page before its first post that belongs to stops
Upto(data, stops) ==
    IF \E i \in 1..Len(data) : data[i] \in stops
    THEN SubSeq(data, 1, (CHOOSE i \in 1..Len(data) :
                              data[i] \in stops /\ \A j \in 1..(i - 1) : data[j] \notin stops) - 1)
    ELSE data

StopsScan(st) == st.visibility # "direct" /\ OldRaw(st)

\* the acceptable posts of a page that precede its first non-direct too-old post
AcceptablePrefix(v, data) ==
    IF v = "bookmarks" THEN data
    ELSE Acceptable(v, Upto(data, {st \in Range(data) : StopsScan(st)}))

OkPage == last # None /\ last[1].status = "ok" /\ last[1].is_list

(* C1 as stated: the result never exceeds the cap, no request is issued    *)
(* with the count at the cap, and a first page holding at least max_items  *)
(* acceptable posts gives exactly the first max_items of them after one    *)
(* request.                                                                *)
C1_Claim ==
    /\ ret # None => Len(ret[1]) <= max_items
    /\ last # None => Len(before) < max_items
    /\ (requests = 1 /\ OkPage /\ max_items >= 1
          /\ Len(Acceptable(variant, last[1].data)) >= max_items)
       => (pc = "written" /\ ret = Some(Take(Acceptable(variant, last[1].data), max_items)))

(* C1 amended: as C1, the acceptable posts of a statuses page being        *)
(* counted among those that precede its first non-direct too-old post.     *)
C1_Capped ==
    /\ ret # None => Len(ret[1]) <= max_items
    /\ last # None => Len(before) < max_items
    /\ (requests = 1 /\ OkPage /\ max_items >= 1
          /\ Len(AcceptablePrefix(variant, last[1].data)) >= max_items)
       => (pc = "written" /\ ret = Some(Take(AcceptablePrefix(variant, last[1].data), max_items)))

C1_Witness ==
    /\ pc = "written" /\ requests = 1 /\ OkPage /\ max_items >= 1
    /\ Len(last[1].data) > max_items
    /\ Len(AcceptablePrefix(variant, last[1].data)) >= max_items
    /\ Advertised(last[1].link) # None

C3_Claim ==
    (variant = "statuses" /\ OkPage /\ \E i \in 1..Len(last[1].data) : OldRaw(last[1].data[i]))
    => /\ pc = "written"
       /\ ret = Some(Take(before \o Acceptable("statuses", Upto(last[1].data, {st \in Range(last[1].data) : OldRaw(st)})), max_items))

(* C3 amended: in fetch_statuses, a fetched page holding a non-direct post *)
(* older than the cutoff ends the fetch, and the result holds nothing of   *)
(* the page from that post on.                                             *)
C3_Cutoff ==
    (variant = "statuses" /\ OkPage /\ \E i \in 1..Len(last[1].data) : StopsScan(last[1].data[i]))
    => /\ pc = "written"
       /\ ret = Some(Take(before \o AcceptablePrefix("statuses", last[1].data), max_items))

C3_Witness ==
    /\ variant = "statuses" /\ OkPage /\ pc = "written" /\ requests = 2
    /\ Len(last[1].data) = 2 /\ AcceptableRaw("statuses", last[1].data[1])
    /\ StopsScan(last[1].data[2])
    /\ Advertised(last[1].link) # None
    /\ Len(ret[1]) < max_items

(* C4: an HTTP error aborts the run at that request; the file is written   *)
(* only by a run whose fetch completed.                                    *)
C4_Abort ==
    /\ http.errors >= 1
       => (pc = "aborted" /\ http.total = http.at_error /\ ret = None /\ file = PriorFile)
    /\ file # PriorFile => (pc = "written" /\ http.errors = 0 /\ ret # None)

C4_Witness == pc = "aborted" /\ variant = "statuses" /\ requests = 2 /\ file = PriorFile

(* C5: fetch_statuses keeps no direct post and no post older than the      *)
(* cutoff; a post without a readable created_at is kept.                   *)
C5_Kept ==
    variant = "statuses"
    => /\ \A i \in 1..Len(results) : AcceptableRaw("statuses", results[i])
       /\ ret # None => \A i \in 1..Len(ret[1]) : AcceptableRaw("statuses", ret[1][i])
       /\ (OkPage /\ last[1].data # << >> /\ last[1].data[1].visibility # "direct"
             /\ last[1].data[1].created_at.kind # "iso")
          => (Len(results) > Len(before) /\ results[Len(before) + 1] = last[1].data[1])

C5_Witness ==
    /\ variant = "statuses" /\ ret # None
    /\ \E i, j \in 1..Len(ret[1]) :
         ret[1][i].created_at.kind = "None" /\ ret[1][j].created_at.kind = "garbage"
    /\ \E i \in 1..Len(last[1].data) : last[1].data[i].visibility = "direct"

(* C6: a successful page whose Link header is absent, empty or malformed   *)
(* ends the fetch without error, with everything accumulated so far.       *)
C6_NoNext ==
    (last # None /\ last[1].status = "ok" /\ last[1].link \in NoNextHeaders)
    => /\ pc = "written"
       /\ ret = Some(Take(before \o (IF last[1].is_list
                                     THEN AcceptablePrefix(variant, last[1].data)
                                     ELSE << >>), max_items))

C6_Witness ==
    /\ pc = "written" /\ requests = 2 /\ OkPage
    /\ last[1].link = Some(NoBrackets) /\ last[1].data # << >>
    /\ Len(ret[1]) > Len(before)

(* C10 as stated: every request that does not end the loop adds a post,    *)
(* so a run issues at most max(1, max_items) page requests.                *)
C10_Claim ==
    /\ requests <= Max(1, max_items)
    /\ (pc = "loop" /\ last # None) => Len(results) > Len(before)

\* the post each item of a built feed comes from, in item order
RetainedRaw(st, now) ==
    st.created_at.kind = "iso" => st.created_at.t >= now - BookmarkWindowHours

Sources(run) ==
    IF run.feed.generator = "bookmarks"
    THEN SelectSeq(statuses, LAMBDA st : RetainedRaw(st, run.now))
    ELSE statuses

(* C7: the bookmark feed holds one item for each post not older than 24    *)
(* hours before the run (a post at the cutoff or without a readable        *)
(* timestamp stays), in fetch order, and nothing for the older posts.      *)
C7_Window ==
    \A k \in 1..Len(rss) :
        rss[k].feed.generator = "bookmarks"
        => rss[k].feed.items =
              [i \in 1..Len(Sources(rss[k])) |-> item_bookmarks(Sources(rss[k])[i], rss[k].now)]

C7_Witness ==
    /\ Len(rss) = 1 /\ rss[1].feed.generator = "bookmarks"
    /\ Len(statuses) = 2 /\ Len(rss[1].feed.items) = 1
    /\ statuses[1].created_at = Iso(RunTime - BookmarkWindowHours - 1, "Z")
    /\ statuses[2].created_at = Iso(RunTime - BookmarkWindowHours, "Z")

(* C8 as stated: escape_xml replaces every &, <, >, double quote and       *)
(* apostrophe by its entity, so that its output holds no raw <, >, double  *)
(* quote or apostrophe and every & of it begins one of the five entities.  *)
Entity(c) ==
    CASE c = "&" -> <<"&", "a", "m", "p", ";">>
      [] c = "<" -> <<"&", "l", "t", ";">>
      [] c = ">" -> <<"&", "g", "t", ";">>
      [] c = "\"" -> <<"&", "q", "u", "o", "t", ";">>
      [] c = "'" -> <<"&", "a", "p", "o", "s", ";">>
      [] OTHER -> <<c>>

Entities == {Entity(c) : c \in {"&", "<", ">", "\"", "'"}}

WellEscaped(out) ==
    \A i \in 1..Len(out) :
        /\ out[i] \notin {"<", ">", "\"", "'"}
        /\ out[i] = "&" => \E e \in Entities : startswith(SubSeq(out, i, Len(out)), e)

C8_Claim ==
    escaped # None
    => /\ escaped[1].out = Concat([i \in 1..Len(text) |-> Entity(text[i])])
       /\ WellEscaped(escaped[1].out)

(* C9 as stated: two items, of one feed or of two runs, have the same guid *)
(* exactly when their posts have the same id.                              *)
C9_Claim ==
    \A a, b \in 1..Len(rss) :
        \A i \in 1..Len(rss[a].feed.items), j \in 1..Len(rss[b].feed.items) :
            rss[a].feed.items[i].guid = rss[b].feed.items[j].guid
            <=> Sources(rss[a])[i].id = Sources(rss[b])[j].id

(* C9 amended: two items whose posts both carry a non-empty id have the    *)
(* same guid exactly when the two ids are equal.                           *)
C9_GuidFromId ==
    \A a, b \in 1..Len(rss) :
        \A i \in 1..Len(rss[a].feed.items), j \in 1..Len(rss[b].feed.items) :
            (Truthy(Sources(rss[a])[i].id) /\ Truthy(Sources(rss[b])[j].id))
            => (rss[a].feed.items[i].guid = rss[b].feed.items[j].guid
                <=> Sources(rss[a])[i].id = Sources(rss[b])[j].id)

C9_Witness ==
    /\ Len(rss) = 2 /\ rss[1].feed.generator = "statuses" /\ Len(statuses) = 2
    /\ Truthy(statuses[1].id) /\ statuses[1].id = statuses[2].id
    /\ rss[1].feed.items[1].link # rss[2].feed.items[2].link
    /\ rss[1].feed.items[1].guid = rss[2].feed.items[2].guid

====
